---- MODULE Spec2Model ----
(***************************************************************************)
(* Food recommendation agent: the retry/fallback wrapper safe_invoke of    *)
(* debug_run.py and the two lifecycle hooks of FoodMemoryHookProvider      *)
(* (debug_run.py and food_agent_runtime.py).                               *)
(*                                                                         *)
(* Text is modelled as a sequence of atoms.  An atom is one character, or  *)
(* a fixed fragment of a source literal that no operation looks into.      *)
(***************************************************************************)
EXTENDS Integers, Sequences, FiniteSets, TLC

VARIABLES
    pc,            \* safe_invoke: "idle", "loop" (inside the for loop), "done"
    max_retries,   \* safe_invoke: the max_retries argument of the running call
    attempt,       \* safe_invoke: the loop variable
    agentModel,    \* agent.model of the agent handed to safe_invoke
    log,           \* safe_invoke: what the running call did, in order
    outcome,       \* safe_invoke: how the call ended
    version,       \* which FoodMemoryHookProvider: "debug" or "runtime"
    messages,      \* event.agent.messages
    state,         \* event.agent.state
    providerMemoryId, \* self.memory_id of the debug_run provider
    clientFails,   \* whether the next memory-client call raises
    events,        \* the create_event calls received by the memory client
    hook,          \* the hook that ran last and how it ended
    errorLog,      \* number of logger.error calls made by the hooks
    system_prompt, \* event.agent.system_prompt
    preferences,   \* what retrieve_memories returns when it does not raise
    retrievals,    \* the retrieve_memories calls received by the memory client
    promptBefore,  \* history: system_prompt when the hook that ran last began
    search,        \* search_food: its argument, what the web search does, its result
    agentExists,   \* runtime: whether the global agent is not None
    agentGen,      \* runtime history: number of Agent objects constructed so far
    memoryEnv,     \* runtime: MEMORY_ID
    requests,      \* runtime: the requests received, each with its position
    nb,            \* fix_nb.py: the source (list of lines) of cells 4, 6, 7, 8
    nbBefore,      \* fix_nb.py history: the sources when the script started
    fixPc          \* fix_nb.py: "idle", "loaded" or "saved"

vars == <<pc, max_retries, attempt, agentModel, log, outcome, version, messages,
          state, providerMemoryId, clientFails, events, hook, errorLog,
          system_prompt, preferences, retrievals, promptBefore, search,
          agentExists, agentGen, memoryEnv, requests, nb, nbBefore, fixPc>>

invokeVars == <<pc, max_retries, attempt, agentModel, log, outcome>>
hookVars == <<version, messages, state, providerMemoryId, clientFails, events,
              hook, errorLog, system_prompt, preferences, retrievals,
              promptBefore>>

\* the state of the components other than safe_invoke and the hooks
rtVars == <<agentExists, agentGen, memoryEnv, requests>>
fixVars == <<nb, nbBefore, fixPc>>
extVars == <<search, rtVars, fixVars>>

(***************************************************************************)
(* Bounds of the model.                                                    *)
(***************************************************************************)
MaxRetriesBound == 4
MaxMsgs == 3
MaxPrefs == 2
MaxResultsBound == 2
MaxApiLen == 3
MaxRequests == 2
MaxPieces == 2

\* search_food has not been called
SearchIdle ==
    search = [max_results |-> 0,
              api |-> [kind |-> "none", items |-> << >>, msg |-> << >>],
              result |-> [kind |-> "none", val |-> << >>]]

\* the runtime entrypoint has received no request
RuntimeIdle ==
    /\ agentExists = FALSE
    /\ agentGen = 0
    /\ memoryEnv = "FoodAgentMemory-2SXptmCV1E"
    /\ requests = << >>

\* the cells fix_nb.py rewrites
Cells == {4, 6, 7, 8}

\* fix_nb.py has not been run
FixIdle ==
    /\ nb = [c \in Cells |-> << >>]
    /\ nbBefore = nb
    /\ fixPc = "idle"

\* the components other than safe_invoke and the hooks are not running
ExtIdle == SearchIdle /\ RuntimeIdle /\ FixIdle

(***************************************************************************)
(* Text helpers.                                                           *)
(***************************************************************************)
UpperAlphabet == <<"A","B","C","D","E","F","G","H","I","J","K","L","M",
                   "N","O","P","Q","R","S","T","U","V","W","X","Y","Z">>
LowerAlphabet == <<"a","b","c","d","e","f","g","h","i","j","k","l","m",
                   "n","o","p","q","r","s","t","u","v","w","x","y","z">>

\* Python's None, as the value of an identifier
None == "None"

\* str.lower(), one character
LowerChar(c) ==
    IF \E i \in 1..26 : UpperAlphabet[i] = c
    THEN LowerAlphabet[CHOOSE i \in 1..26 : UpperAlphabet[i] = c]
    ELSE c

\* str.lower()
LowerStr(s) == [i \in 1..Len(s) |-> LowerChar(s[i])]

\* the Python test  sub in s
Contains(s, sub) ==
    \E i \in 1..(Len(s) - Len(sub) + 1) : SubSeq(s, i, i + Len(sub) - 1) = sub

(***************************************************************************)
(* safe_invoke (debug_run.py)                                              *)
(***************************************************************************)
DefaultMaxRetries == 3

Fallbacks == << "us.anthropic.claude-3-5-haiku-20241022-v1:0",
                "us.anthropic.claude-3-haiku-20240307-v1:0",
                "us.anthropic.claude-3-5-sonnet-20241022-v2:0" >>

\* the model create_food_agent gives the agent
CreateFoodAgentModel == "us.anthropic.claude-3-5-haiku-20241022-v1:0"

\* the model test_nova_agent.py assigns to the agent
NovaModel == "amazon.nova-pro-v1:0"

InitialModels == {CreateFoodAgentModel, NovaModel}

PreCallDelay == 1

\* messages of the exceptions the agent call may raise (str(e))
ErrMessages ==
    { <<"T","h","r","o","t","t","l","e","d">>,
      <<"4","2","9">>,
      <<"R","A","T","E">>,
      <<"g","e","n","e","r","a","t","e">>,
      <<"t","i","m","e","o","u","t">>,
      <<"4","2","8">>,
      << >> }

\* results the agent call may return
Replies == { <<"o","k">>, <<"r","a","t","e">> }

\* the classification of the except clause
IsThrottling(msg) ==
    LET error_str == LowerStr(msg) IN
        \/ Contains(error_str, <<"t","h","r","o","t","t","l">>)
        \/ Contains(error_str, <<"4","2","9">>)
        \/ Contains(error_str, <<"r","a","t","e">>)

\* time.sleep(2 ** attempt)
Backoff_Linear(a) == 2 * a

Backoff(a) == 2 ^ a

\* for attempt in range(max_retries): is there an iteration after iteration a
LoopContinues_OffByOne(a, mr) == a + 1 <= mr

LoopContinues(a, mr) == a + 1 < mr

SleepEv(n) == [ev |-> "sleep", n |-> n, m |-> "", ok |-> TRUE, msg |-> << >>]
InvokeEv(a, m, ok, msg) == [ev |-> "invoke", n |-> a, m |-> m, ok |-> ok, msg |-> msg]
SetModelEv(a, m) == [ev |-> "setmodel", n |-> a, m |-> m, ok |-> TRUE, msg |-> << >>]

NoOutcome == [kind |-> "none", val |-> << >>]
Returned(v) == [kind |-> "returned", val |-> v]
ReturnedNone == [kind |-> "returned_none", val |-> << >>]
Raised(msg) == [kind |-> "raised", val |-> msg]

\* the except clause of iteration a for an exception with message msg:
\* whether it re-raises, and otherwise the model it assigns and the time it sleeps
ExceptHandler_RetryAll(a, msg) ==
    IF a < Len(Fallbacks)
    THEN [raise |-> FALSE, model |-> Fallbacks[a + 1], sleep |-> Backoff(a)]
    ELSE [raise |-> TRUE, model |-> "", sleep |-> 0]

ExceptHandler(a, msg) ==
    IF IsThrottling(msg)
    THEN IF a < Len(Fallbacks)
         THEN [raise |-> FALSE, model |-> Fallbacks[a + 1], sleep |-> Backoff(a)]
         ELSE [raise |-> TRUE, model |-> "", sleep |-> 0]
    ELSE [raise |-> TRUE, model |-> "", sleep |-> 0]

\* safe_invoke is called: the fixed delay, then the loop is entered (or skipped)
SafeInvokeCall(mr) ==
    /\ pc = "idle"
    /\ max_retries' = mr
    /\ attempt' = 0
    /\ log' = <<SleepEv(PreCallDelay)>>
    /\ IF mr > 0
       THEN pc' = "loop" /\ outcome' = NoOutcome
       ELSE pc' = "done" /\ outcome' = ReturnedNone
    /\ UNCHANGED <<agentModel>>
    /\ UNCHANGED <<hookVars, extVars>>

\* agent(user_input) returns: safe_invoke returns its result
AttemptSucceeds(reply) ==
    /\ pc = "loop"
    /\ log' = Append(log, InvokeEv(attempt, agentModel, TRUE, reply))
    /\ outcome' = Returned(reply)
    /\ pc' = "done"
    /\ UNCHANGED <<max_retries, attempt, agentModel>>
    /\ UNCHANGED <<hookVars, extVars>>

\* agent(user_input) raises: the except clause, then the next iteration or the
\* end of the loop (the function then ends without a return statement)
AttemptFails(msg) ==
    /\ pc = "loop"
    /\ LET h == ExceptHandler(attempt, msg)
           inv == InvokeEv(attempt, agentModel, FALSE, msg)
       IN IF h.raise
          THEN /\ log' = Append(log, inv)
               /\ outcome' = Raised(msg)
               /\ pc' = "done"
               /\ UNCHANGED <<attempt, agentModel>>
          ELSE /\ log' = log \o <<inv, SetModelEv(attempt, h.model), SleepEv(h.sleep)>>
               /\ agentModel' = h.model
               /\ IF LoopContinues(attempt, max_retries)
                  THEN /\ attempt' = attempt + 1
                       /\ pc' = "loop"
                       /\ outcome' = NoOutcome
                  ELSE /\ attempt' = attempt
                       /\ pc' = "done"
                       /\ outcome' = ReturnedNone
    /\ UNCHANGED <<max_retries>>
    /\ UNCHANGED <<hookVars, extVars>>

\* the caller goes on with the same agent (the script calls safe_invoke again)
CallerContinues ==
    /\ pc = "done"
    /\ pc' = "idle"
    /\ log' = << >>
    /\ outcome' = NoOutcome
    /\ attempt' = 0
    /\ max_retries' = DefaultMaxRetries
    /\ UNCHANGED <<agentModel>>
    /\ UNCHANGED <<hookVars, extVars>>

\* no hook has run, on an agent with no identifiers and no transcript
HookStateIdle ==
    /\ messages = << >>
    /\ state = [actor_id |-> None, session_id |-> None, memory_id |-> None]
    /\ providerMemoryId = None
    /\ clientFails = FALSE
    /\ events = << >>
    /\ hook = [name |-> "none", result |-> "none"]
    /\ errorLog = 0
    /\ system_prompt = << >>
    /\ preferences = [none |-> TRUE, items |-> << >>]
    /\ retrievals = << >>
    /\ promptBefore = << >>

HookIdle == version = "debug" /\ HookStateIdle

InitInvoke ==
    /\ ExtIdle
    /\ pc = "idle"
    /\ max_retries = DefaultMaxRetries
    /\ attempt = 0
    /\ agentModel \in InitialModels
    /\ log = << >>
    /\ outcome = NoOutcome
    /\ HookIdle

NextInvoke ==
    \/ \E mr \in 0..MaxRetriesBound : SafeInvokeCall(mr)
    \/ \E reply \in Replies : AttemptSucceeds(reply)
    \/ \E msg \in ErrMessages : AttemptFails(msg)
    \/ CallerContinues

SpecInvoke == InitInvoke /\ [][NextInvoke]_vars

(***************************************************************************)
(* FoodMemoryHookProvider.on_after_invocation                              *)
(* (debug_run.py and food_agent_runtime.py)                                *)
(***************************************************************************)
Versions == {"debug", "runtime"}

\* the memory id the runtime puts into the agent state, and the one the
\* debug_run script hands to its provider
MemoryId == "FoodAgentMemory-2SXptmCV1E"

ActorIds == {None, "food-lover-001"}
SessionIds == {None, "food_chat_1"}
MemoryIds == {None, MemoryId}

\* agent states: create_food_agent puts no memory_id into the state
States(ver) ==
    [actor_id : ActorIds, session_id : SessionIds,
     memory_id : IF ver = "runtime" THEN MemoryIds ELSE {None}]

\* content blocks: whether the block is a dict, whether it has a "text" key,
\* the value of that key, and whether it has a "toolResult" key
TextBlock(t) == [isDict |-> TRUE, hasText |-> TRUE, text |-> t, toolResult |-> FALSE]
ToolResultBlock == [isDict |-> TRUE, hasText |-> FALSE, text |-> << >>, toolResult |-> TRUE]
TextAndToolResultBlock(t) ==
    [isDict |-> TRUE, hasText |-> TRUE, text |-> t, toolResult |-> TRUE]
NonDictBlock == [isDict |-> FALSE, hasText |-> FALSE, text |-> << >>, toolResult |-> FALSE]

MsgTexts == { << >>, <<"a">>, <<"b">> }

Contents ==
    { << >> } \cup { <<TextBlock(t)>> : t \in MsgTexts }
              \cup { <<ToolResultBlock>>, <<TextAndToolResultBlock(<<"a">>)>>,
                     <<NonDictBlock>> }

Messages == [role : {"user", "assistant"}, content : Contents]

Transcripts == UNION { [1..n -> Messages] : n \in 0..MaxMsgs }

\* user_msg / assistant_msg: None, or a text
NoText == [set |-> FALSE, text |-> << >>]
SomeText(t) == [set |-> TRUE, text |-> t]

\* Python truthiness of user_msg / assistant_msg: neither None nor ""
Truthy(x) == x.set /\ x.text # << >>

\* content and isinstance(content[0], dict) and "text" in content[0]
HasText(msg) ==
    Len(msg.content) > 0 /\ msg.content[1].isDict /\ msg.content[1].hasText

\* "toolResult" not in content[0]
NotToolResult_Ignored(msg) == TRUE

NotToolResult(msg) == ~msg.content[1].toolResult

\* the body of  for msg in reversed(messages)  from index i downwards, with
\* the values user_msg and assistant_msg have when msgs[i] is reached
RECURSIVE ScanFrom(_, _, _, _)
ScanFrom(msgs, i, user_msg, assistant_msg) ==
    IF i = 0
    THEN [user |-> user_msg, assistant |-> assistant_msg]
    ELSE LET msg == msgs[i] IN
         IF msg.role = "assistant" /\ ~Truthy(assistant_msg)
         THEN IF HasText(msg)
              THEN ScanFrom(msgs, i - 1, user_msg, SomeText(msg.content[1].text))
              ELSE ScanFrom(msgs, i - 1, user_msg, assistant_msg)
         ELSE IF msg.role = "user" /\ ~Truthy(user_msg)
         THEN IF HasText(msg) /\ NotToolResult(msg)
              THEN [user |-> SomeText(msg.content[1].text),
                    assistant |-> assistant_msg]      \* break
              ELSE ScanFrom(msgs, i - 1, user_msg, assistant_msg)
         ELSE ScanFrom(msgs, i - 1, user_msg, assistant_msg)

\* the pair the loop ends with
LastPair(msgs) == ScanFrom(msgs, Len(msgs), NoText, NoText)

\* not memory_id or not actor_id or not session_id  (runtime)
\* not actor_id or not session_id                   (debug_run)
MissingIds_Never(ver, st) == FALSE

MissingIds(ver, st) ==
    \/ st.actor_id = None
    \/ st.session_id = None
    \/ ver = "runtime" /\ st.memory_id = None

\* the memory id the event is keyed by
EventMemoryId(ver, st, pmid) == IF ver = "runtime" THEN st.memory_id ELSE pmid

\* len(messages) < 2
TooShort(msgs) == Len(msgs) < 2

\* the create_event calls one run of the hook makes (none or one)
CreateEventCalls(ver, msgs, st, pmid) ==
    IF TooShort(msgs) \/ MissingIds(ver, st)
    THEN << >>
    ELSE LET p == LastPair(msgs) IN
         IF Truthy(p.user) /\ Truthy(p.assistant)
         THEN << [memory_id |-> EventMemoryId(ver, st, pmid),
                  actor_id |-> st.actor_id,
                  session_id |-> st.session_id,
                  messages |-> << <<p.user.text, "USER">>,
                                  <<p.assistant.text, "ASSISTANT">> >>] >>
         ELSE << >>

\* how the hook ends when create_event raises: the except clause logs
CaptureOnError_Reraise == [result |-> "raised", logged |-> 0]

CaptureOnError == [result |-> "returned", logged |-> 1]

\* one run of on_after_invocation; fails: whether create_event raises
OnAfterInvocation(fails) ==
    /\ hook.name = "none"
    /\ LET calls == CreateEventCalls(version, messages, state, providerMemoryId)
           end == IF calls # << >> /\ fails
                  THEN CaptureOnError
                  ELSE [result |-> "returned", logged |-> 0]
       IN /\ events' = events \o calls
          /\ clientFails' = fails
          /\ hook' = [name |-> "capture", result |-> end.result]
          /\ errorLog' = errorLog + end.logged
    /\ UNCHANGED <<version, messages, state, providerMemoryId, system_prompt,
                   preferences, retrievals, promptBefore>>
    /\ UNCHANGED <<invokeVars, extVars>>

InvokeIdle ==
    /\ pc = "idle"
    /\ max_retries = DefaultMaxRetries
    /\ attempt = 0
    /\ agentModel = CreateFoodAgentModel
    /\ log = << >>
    /\ outcome = NoOutcome

InitCapture ==
    /\ ExtIdle
    /\ InvokeIdle
    /\ version \in Versions
    /\ messages \in Transcripts
    /\ state \in States(version)
    /\ providerMemoryId \in (IF version = "debug" THEN MemoryIds ELSE {None})
    /\ clientFails = FALSE
    /\ events = << >>
    /\ hook = [name |-> "none", result |-> "none"]
    /\ errorLog = 0
    /\ system_prompt = << >>
    /\ preferences = [none |-> TRUE, items |-> << >>]
    /\ retrievals = << >>
    /\ promptBefore = << >>

NextCapture == \E fails \in BOOLEAN : OnAfterInvocation(fails)

SpecCapture == InitCapture /\ [][NextCapture]_vars

(***************************************************************************)
(* FoodMemoryHookProvider.on_agent_initialized                             *)
(* (debug_run.py and food_agent_runtime.py)                                *)
(***************************************************************************)
\* the newline character, and the backslash character
NL == "\n"
BS == "\\"

TopKDebug == 3
TopKRuntime == 5

Query == "food preferences cuisines dietary restrictions favorites"

\* the text after the two leading and before the trailing line break of the
\* literal appended to the system prompt
HeaderDebug == "## User's Food Preferences (from previous conversations):"
HeaderRuntime == "## User's Food Preferences:"

\* system prompts the agent is created with
BasePrompts == { << >>, <<"You are a concise food assistant.">> }

\* one retrieved result: whether it is a dict, what its "content" is
\* ("missing", "dict", "other"), what the "text" of that content is
\* ("missing", "str", "other"), and the text when it is a str
PrefTexts == { << >>, <<" ">>, <<"a">>, <<" ", "b", NL>> }

PrefResults ==
    { [isDict |-> FALSE, content |-> "missing", textKind |-> "missing", text |-> << >>],
      [isDict |-> TRUE, content |-> "missing", textKind |-> "missing", text |-> << >>],
      [isDict |-> TRUE, content |-> "other", textKind |-> "missing", text |-> << >>],
      [isDict |-> TRUE, content |-> "dict", textKind |-> "missing", text |-> << >>],
      [isDict |-> TRUE, content |-> "dict", textKind |-> "other", text |-> << >>] }
    \cup { [isDict |-> TRUE, content |-> "dict", textKind |-> "str", text |-> t] :
             t \in PrefTexts }

\* what retrieve_memories returns: None, or a list of results
RetrievalResults ==
    { [none |-> TRUE, items |-> << >>] }
    \cup { [none |-> FALSE, items |-> l] :
             l \in UNION { [1..n -> PrefResults] : n \in 0..MaxPrefs } }

IsSpace(c) == c \in {" ", "\t", NL}

RECURSIVE LStrip(_)
LStrip(s) == IF s # << >> /\ IsSpace(Head(s)) THEN LStrip(Tail(s)) ELSE s

RECURSIVE RStrip(_)
RStrip(s) ==
    IF s # << >> /\ IsSpace(s[Len(s)]) THEN RStrip(SubSeq(s, 1, Len(s) - 1)) ELSE s

\* str.strip()
Strip(s) == RStrip(LStrip(s))

\* sep.join(lines)
RECURSIVE Join(_, _)
Join(sep, lines) ==
    IF lines = << >> THEN << >>
    ELSE IF Len(lines) = 1 THEN lines[1]
    ELSE lines[1] \o sep \o Join(sep, Tail(lines))

\* content.get('text', '') of a result whose content is a dict
TextOf(pref) == IF pref.textKind = "missing" THEN << >> ELSE pref.text

\* the body of  for pref in preferences  from result i on: the lines appended
\* to pref_texts, and whether .strip() raised on a text that is no str
RECURSIVE PrefTextsFrom(_, _, _)
PrefTextsFrom(items, i, pref_texts) ==
    IF i > Len(items)
    THEN [raised |-> FALSE, lines |-> pref_texts]
    ELSE LET pref == items[i] IN
         IF pref.isDict /\ (pref.content = "dict" \/ pref.content = "missing")
         THEN IF pref.content = "dict" /\ pref.textKind = "other"
              THEN [raised |-> TRUE, lines |-> pref_texts]
              ELSE LET text == Strip(IF pref.content = "dict" THEN TextOf(pref)
                                                              ELSE << >>)
                   IN IF text # << >>
                      THEN PrefTextsFrom(items, i + 1,
                                         Append(pref_texts, <<"-", " ">> \o text))
                      ELSE PrefTextsFrom(items, i + 1, pref_texts)
         ELSE PrefTextsFrom(items, i + 1, pref_texts)

\* the line break the version's literals hold: "\n" in debug_run.py, and the
\* two characters backslash, n ("\\n") in food_agent_runtime.py
LineBreak(ver) == IF ver = "debug" THEN <<NL>> ELSE <<BS, "n">>

Header(ver) ==
    LineBreak(ver) \o LineBreak(ver)
        \o <<IF ver = "debug" THEN HeaderDebug ELSE HeaderRuntime>>
        \o LineBreak(ver)

\* the text appended to the system prompt for the lines pref_texts
PromptBlock(ver, pref_texts) == Header(ver) \o Join(LineBreak(ver), pref_texts)

\* not actor_id (debug_run);  not memory_id or not actor_id (runtime)
MissingInitIds(ver, st) ==
    \/ st.actor_id = None
    \/ ver = "runtime" /\ st.memory_id = None

\* namespace = f"user/{actor_id}/food_preferences"
Namespace_Fixed(actor_id) == <<"user/", "default_user", "/food_preferences">>

Namespace(actor_id) == <<"user/", actor_id, "/food_preferences">>

RetrieveCall(ver, st, pmid) ==
    [memory_id |-> IF ver = "runtime" THEN st.memory_id ELSE pmid,
     namespace |-> Namespace(st.actor_id),
     query |-> Query,
     top_k |-> IF ver = "runtime" THEN TopKRuntime ELSE TopKDebug]

\* how the hook ends when retrieval or formatting raises: the except clause logs
PrefsOnError_Reraise == [result |-> "raised", logged |-> 0]

PrefsOnError == [result |-> "returned", logged |-> 1]

\* one run of on_agent_initialized; fails: whether retrieve_memories raises
OnAgentInitialized(fails) ==
    /\ hook.name = "none"
    /\ promptBefore' = system_prompt
    /\ clientFails' = fails
    /\ IF MissingInitIds(version, state)
       THEN /\ hook' = [name |-> "prefs", result |-> "returned"]
            /\ UNCHANGED <<retrievals, system_prompt, errorLog>>
       ELSE /\ retrievals' = Append(retrievals,
                                    RetrieveCall(version, state, providerMemoryId))
            /\ IF fails
               THEN /\ hook' = [name |-> "prefs", result |-> PrefsOnError.result]
                    /\ errorLog' = errorLog + PrefsOnError.logged
                    /\ UNCHANGED system_prompt
               ELSE IF preferences.none \/ preferences.items = << >>
               THEN /\ hook' = [name |-> "prefs", result |-> "returned"]
                    /\ UNCHANGED <<system_prompt, errorLog>>
               ELSE LET r == PrefTextsFrom(preferences.items, 1, << >>) IN
                    IF r.raised
                    THEN /\ hook' = [name |-> "prefs", result |-> PrefsOnError.result]
                         /\ errorLog' = errorLog + PrefsOnError.logged
                         /\ UNCHANGED system_prompt
                    ELSE /\ hook' = [name |-> "prefs", result |-> "returned"]
                         /\ UNCHANGED errorLog
                         /\ system_prompt' =
                               IF r.lines # << >>
                               THEN system_prompt \o PromptBlock(version, r.lines)
                               ELSE system_prompt
    /\ UNCHANGED <<version, messages, state, providerMemoryId, events, preferences>>
    /\ UNCHANGED <<invokeVars, extVars>>

InitPrefs ==
    /\ ExtIdle
    /\ InvokeIdle
    /\ version \in Versions
    /\ messages = << >>
    /\ state \in States(version)
    /\ providerMemoryId \in (IF version = "debug" THEN MemoryIds ELSE {None})
    /\ clientFails = FALSE
    /\ events = << >>
    /\ hook = [name |-> "none", result |-> "none"]
    /\ errorLog = 0
    /\ system_prompt \in BasePrompts
    /\ preferences \in RetrievalResults
    /\ retrievals = << >>
    /\ promptBefore = << >>

NextPrefs == \E fails \in BOOLEAN : OnAgentInitialized(fails)

SpecPrefs == InitPrefs /\ [][NextPrefs]_vars

(***************************************************************************)
(* search_food (debug_run.py and food_agent_runtime.py)                    *)
(***************************************************************************)
\* one result of DDGS().text: a dict that may lack "title" and "body"
SearchTitles == { <<"Pad Thai">>, <<"Tom Yum">> }
SearchBodies == { <<"spicy noodles">> }

SearchItems ==
    [hasTitle : BOOLEAN, title : SearchTitles, hasBody : BOOLEAN, body : SearchBodies]

\* messages of the exceptions DDGS().text may raise, other than the rate limit
SearchErrors == { <<"timeout">>, << >> }

\* what DDGS().text does: returns None, returns a list, raises
\* RatelimitException, raises another exception
ApiOutcomes ==
    { [kind |-> "none", items |-> << >>, msg |-> << >>],
      [kind |-> "ratelimit", items |-> << >>, msg |-> <<"rate limited">>] }
    \cup { [kind |-> "error", items |-> << >>, msg |-> m] : m \in SearchErrors }
    \cup { [kind |-> "list", items |-> l, msg |-> << >>] :
             l \in UNION { [1..n -> SearchItems] : n \in 0..MaxApiLen } }

Digits == <<"0","1","2","3","4","5","6","7","8","9">>

\* str(i) of the f-string, i >= 0
RECURSIVE Decimal(_)
Decimal(i) ==
    IF i < 10 THEN <<Digits[i + 1]>>
    ELSE Decimal(i \div 10) \o <<Digits[(i % 10) + 1]>>

\* r.get('title', 'No title')
TitleOf(r) == IF r.hasTitle THEN r.title ELSE <<"No title">>

\* r.get('body', '')
BodyOf(r) == IF r.hasBody THEN r.body ELSE << >>

\* f"{i}. {title}\n   {body}"  (the runtime file writes the line break "\\n")
Entry(ver, i, r) ==
    Decimal(i) \o <<".", " ">> \o TitleOf(r)
        \o LineBreak(ver) \o <<" ", " ", " ">> \o BodyOf(r)

\* the list  formatted  after the loop over enumerate(results, 1)
Formatted(ver, results) == [i \in 1..Len(results) |-> Entry(ver, i, results[i])]

NoResultsText == <<"No results found.">>
RateLimitText == <<"Rate limit reached. Please try again later.">>
SearchErrorPrefix == <<"Search error: ">>

\* what the two except clauses return
SearchOnError_Reraise(api) == [kind |-> "raised", val |-> api.msg]

SearchOnError(api) ==
    IF api.kind = "ratelimit"
    THEN [kind |-> "returned", val |-> RateLimitText]
    ELSE [kind |-> "returned", val |-> SearchErrorPrefix \o api.msg]

\* search_food for what DDGS().text does; max_results is only handed to the
\* search call, the list it returns is formatted whole
SearchFoodResult(ver, max_results, api) ==
    IF api.kind \in {"ratelimit", "error"}
    THEN SearchOnError(api)
    ELSE IF api.kind = "none" \/ api.items = << >>
    THEN [kind |-> "returned", val |-> NoResultsText]
    ELSE [kind |-> "returned",
          val |-> Join(LineBreak(ver) \o LineBreak(ver), Formatted(ver, api.items))]

SearchFood ==
    /\ search.result.kind = "none"
    /\ search' = [search EXCEPT
                    !.result = SearchFoodResult(version, search.max_results, search.api)]
    /\ UNCHANGED <<invokeVars, hookVars, rtVars, fixVars>>

InitSearch ==
    /\ InvokeIdle
    /\ RuntimeIdle
    /\ FixIdle
    /\ version \in Versions
    /\ HookStateIdle
    /\ search \in [max_results : 1..MaxResultsBound,
                   api : ApiOutcomes,
                   result : {[kind |-> "none", val |-> << >>]}]

NextSearch == SearchFood

SpecSearch == InitSearch /\ [][NextSearch]_vars

(***************************************************************************)
(* The runtime entrypoint food_agent and initialize_agent                  *)
(* (food_agent_runtime.py)                                                 *)
(***************************************************************************)
\* the tools list of initialize_agent names book_restaurant, which
\* food_agent_runtime.py neither defines nor imports; the tool is taken to
\* be defined, as the system prompt and the section comment of the file say
BookRestaurantDefined == TRUE

\* get_system_prompt()
RuntimePrompt == <<"You are a concise food assistant. ... Date: ">>

DefaultActor == "default_user"

\* payload.get("prompt"): None (no key), "" or a text
Prompts == { [present |-> FALSE, text |-> << >>],
             [present |-> TRUE, text |-> << >>],
             [present |-> TRUE, text |-> <<"a">>] }

\* the "actor_id" key of the payload: missing, or an id
Missing == "missing"
PayloadActors == {Missing, "food-lover-001"}

\* context.session_id
ContextSessions == {"food_chat_1", "food_chat_2"}

\* the text of the agent's final message
ReplyText == <<"b">>

\* what retrieve_memories does while an agent is constructed: raises, or
\* returns None, or returns one stored preference
RuntimeRetrievals ==
    { [fails |-> TRUE, prefs |-> [none |-> TRUE, items |-> << >>]],
      [fails |-> FALSE, prefs |-> [none |-> TRUE, items |-> << >>]],
      [fails |-> FALSE,
       prefs |-> [none |-> FALSE,
                  items |-> <<[isDict |-> TRUE, content |-> "dict",
                               textKind |-> "str", text |-> <<"a">>]>>]] }

\* the leading glyph of the two messages is left out
MissingPromptError == <<"ERROR: Missing 'prompt' field in payload">>
MissingMemoryError ==
    <<"ERROR: MEMORY_ID environment variable not set. Please deploy properly to Agent Core runtime.">>

\* actor_id = payload.get("actor_id", "default_user")
ActorOf(payloadActor) == IF payloadActor = Missing THEN DefaultActor ELSE payloadActor

NoServed == [actor_id |-> None, session_id |-> None, gen |-> 0]

\* not user_input
NoPrompt_MissingOnly(prompt) == ~prompt.present

NoPrompt(prompt) == ~prompt.present \/ prompt.text = << >>

InFlight == {i \in 1..Len(requests) : requests[i].pc \in {"validated", "ready"}}

\* food_agent up to the validation: the payload is read and checked; no
\* shared state is touched.  k: how many requests may be in progress at once
Receive(k, prompt, payloadActor, session) ==
    /\ Len(requests) < MaxRequests
    /\ Cardinality(InFlight) < k
    /\ LET err == IF NoPrompt(prompt) THEN MissingPromptError
                  ELSE IF memoryEnv = "" THEN MissingMemoryError
                  ELSE << >>
       IN requests' = Append(requests,
              [prompt |-> prompt,
               payloadActor |-> payloadActor,
               actor_id |-> ActorOf(payloadActor),
               session_id |-> session,
               pc |-> IF err # << >> THEN "done" ELSE "validated",
               result |-> IF err # << >> THEN [kind |-> "returned", val |-> err]
                                         ELSE [kind |-> "none", val |-> << >>],
               created |-> FALSE,
               served |-> NoServed])
    /\ UNCHANGED <<agentExists, agentGen, memoryEnv, search, fixVars>>
    /\ UNCHANGED <<invokeVars, hookVars>>

\* agent is None, or current_session != session_id or current_actor != actor_id
NeedsInit_SessionOnly(exists, st, actor_id, session_id) ==
    \/ ~exists
    \/ st.session_id # session_id

NeedsInit(exists, st, actor_id, session_id) ==
    \/ ~exists
    \/ st.session_id # session_id
    \/ st.actor_id # actor_id

\* the system prompt of a newly constructed agent after on_agent_initialized
\* ran on it, for what retrieve_memories does
InitializedPrompt(st, ret) ==
    IF MissingInitIds("runtime", st) \/ ret.fails
       \/ ret.prefs.none \/ ret.prefs.items = << >>
    THEN RuntimePrompt
    ELSE LET r == PrefTextsFrom(ret.prefs.items, 1, << >>) IN
         IF r.raised \/ r.lines = << >>
         THEN RuntimePrompt
         ELSE RuntimePrompt \o PromptBlock("runtime", r.lines)

\* food_agent, lines 255-266, for request i: the global agent is replaced by
\* a new one (initialize_agent, whose Agent(...) runs on_agent_initialized)
\* or kept
EnsureAgent(i, ret) ==
    /\ i \in 1..Len(requests)
    /\ requests[i].pc = "validated"
    /\ BookRestaurantDefined
    /\ LET r == requests[i]
           new == NeedsInit(agentExists, state, r.actor_id, r.session_id)
           st == [memory_id |-> memoryEnv, actor_id |-> r.actor_id,
                  session_id |-> r.session_id]
       IN /\ requests' = [requests EXCEPT ![i].pc = "ready", ![i].created = new]
          /\ IF new
             THEN /\ agentExists' = TRUE
                  /\ agentGen' = agentGen + 1
                  /\ state' = st
                  /\ messages' = << >>
                  /\ promptBefore' = RuntimePrompt
                  /\ system_prompt' = InitializedPrompt(st, ret)
                  /\ retrievals' = IF MissingInitIds("runtime", st) THEN retrievals
                                   ELSE Append(retrievals, RetrieveCall("runtime", st, None))
                  /\ preferences' = ret.prefs
                  /\ clientFails' = ret.fails
                  /\ errorLog' = IF ret.fails THEN errorLog + PrefsOnError.logged
                                 ELSE errorLog
                  /\ hook' = [name |-> "prefs", result |-> "returned"]
             ELSE UNCHANGED <<agentExists, agentGen, state, messages, promptBefore,
                              system_prompt, retrievals, preferences, clientFails,
                              errorLog, hook>>
    /\ UNCHANGED <<version, providerMemoryId, events, memoryEnv, search, fixVars>>
    /\ UNCHANGED invokeVars

UserMessage(t) == [role |-> "user", content |-> <<TextBlock(t)>>]
AssistantMessage(t) == [role |-> "assistant", content |-> <<TextBlock(t)>>]

\* food_agent, lines 268-276, for request i: the global agent, whichever it
\* is by now, is invoked; the prompt and, when the model answers, the reply
\* are appended to its transcript, on_after_invocation runs on it, and the
\* reply text is returned (or the model's exception propagates)
InvokeAgent(i, ok) ==
    /\ i \in 1..Len(requests)
    /\ requests[i].pc = "ready"
    /\ agentExists
    /\ LET r == requests[i]
           msgs == messages \o (IF ok
                                THEN <<UserMessage(r.prompt.text), AssistantMessage(ReplyText)>>
                                ELSE <<UserMessage(r.prompt.text)>>)
       IN /\ messages' = msgs
          /\ events' = events \o CreateEventCalls("runtime", msgs, state, None)
          /\ hook' = [name |-> "capture", result |-> "returned"]
          /\ requests' = [requests EXCEPT
                 ![i].pc = "done",
                 ![i].result = IF ok THEN [kind |-> "returned", val |-> ReplyText]
                                     ELSE [kind |-> "raised", val |-> <<"model error">>],
                 ![i].served = [actor_id |-> state.actor_id,
                                session_id |-> state.session_id,
                                gen |-> agentGen]]
    /\ UNCHANGED <<version, state, providerMemoryId, clientFails, errorLog,
                   system_prompt, preferences, retrievals, promptBefore>>
    /\ UNCHANGED <<agentExists, agentGen, memoryEnv, search, fixVars>>
    /\ UNCHANGED invokeVars

InitRuntime ==
    /\ InvokeIdle
    /\ SearchIdle
    /\ FixIdle
    /\ version = "runtime"
    /\ HookStateIdle
    /\ agentExists = FALSE
    /\ agentGen = 0
    /\ memoryEnv \in {MemoryId, ""}
    /\ requests = << >>

\* requests handled one after the other
NextRuntime ==
    \/ \E p \in Prompts, a \in PayloadActors, sess \in ContextSessions :
          Receive(1, p, a, sess)
    \/ \E i \in 1..MaxRequests, ret \in RuntimeRetrievals : EnsureAgent(i, ret)
    \/ \E i \in 1..MaxRequests, ok \in BOOLEAN : InvokeAgent(i, ok)

SpecRuntime == InitRuntime /\ [][NextRuntime]_vars

\* two requests may be in progress at once: the entrypoint takes no lock
NextOverlap ==
    \/ \E p \in Prompts, a \in PayloadActors, sess \in ContextSessions :
          Receive(2, p, a, sess)
    \/ \E i \in 1..MaxRequests, ret \in RuntimeRetrievals : EnsureAgent(i, ret)
    \/ \E i \in 1..MaxRequests, ok \in BOOLEAN : InvokeAgent(i, ok)

SpecOverlap == InitRuntime /\ [][NextOverlap]_vars

(***************************************************************************)
(* fix_nb.py: the rewriting of cells 4, 6, 7 and 8 of the notebook.  A     *)
(* text is a sequence of atoms: the newline, a character of other text,    *)
(* and the literal fragments the substitutions look for and put in.        *)
(***************************************************************************)
\* cell 4: old and new of the one substitution
Cell4Old == <<"query=\"food preferences cuisines dietary restrictions favorites\",",
              NL, "                ", "top_k=10">>
Cell4New == <<"query=\"food preferences cuisine\",",
              NL, "                ",
              "top_k=3 # Optimized: Removed unnecessary context by lowering top_k">>

\* cells 7 and 8
ReallyOld == <<"food_agent(\"I really">>
ReallyNew == <<"safe_invoke(food_agent, \"I really">>
CanYouOld == <<"food_agent(\"Can you give me">>
CanYouNew == <<"safe_invoke(food_agent, \"Can you give me">>
TopKOld == <<"top_k=10">>
TopKNew == <<"top_k=3 # Optimized context retrieval">>

\* the substitutions applied to a cell, in order
Substitutions(c) ==
    CASE c = 4 -> << [old |-> Cell4Old, new |-> Cell4New] >>
      [] c = 7 -> << [old |-> ReallyOld, new |-> ReallyNew] >>
      [] c = 8 -> << [old |-> ReallyOld, new |-> ReallyNew],
                     [old |-> CanYouOld, new |-> CanYouNew],
                     [old |-> TopKOld, new |-> TopKNew] >>
      [] OTHER -> << >>

\* cell6_new_code, shortened to its first line and the rest; it ends with a
\* newline
Cell6NewCode == <<"def create_food_agent(user_id: str, session_id: str):", NL,
                  "...", NL>>

\* str.replace(old, new): every occurrence, left to right, not overlapping
RECURSIVE Replace(_, _, _)
Replace(text, old, new) ==
    IF Len(text) < Len(old) THEN text
    ELSE IF SubSeq(text, 1, Len(old)) = old
         THEN new \o Replace(SubSeq(text, Len(old) + 1, Len(text)), old, new)
         ELSE <<Head(text)>> \o Replace(Tail(text), old, new)

\* text.split("\n"): the pieces between the newlines, at least one
RECURSIVE SplitFrom(_, _, _)
SplitFrom(text, cur, acc) ==
    IF text = << >> THEN Append(acc, cur)
    ELSE IF Head(text) = NL
         THEN SplitFrom(Tail(text), << >>, Append(acc, cur))
         ELSE SplitFrom(Tail(text), Append(cur, Head(text)), acc)

Split(text) == SplitFrom(text, << >>, << >>)

\* "".join(lines)
RECURSIVE JoinLines(_)
JoinLines(lines) ==
    IF lines = << >> THEN << >> ELSE Head(lines) \o JoinLines(Tail(lines))

\* xs[:-1]
AllButLast(xs) == IF xs = << >> THEN << >> ELSE SubSeq(xs, 1, Len(xs) - 1)

EndsWithNL(line) == line # << >> /\ line[Len(line)] = NL

\* line + "\n" if not line.endswith("\n") else line
WithNL(line) == IF EndsWithNL(line) THEN line ELSE Append(line, NL)

RECURSIVE ApplyAll(_, _)
ApplyAll(text, subs) ==
    IF subs = << >> THEN text
    ELSE ApplyAll(Replace(text, Head(subs).old, Head(subs).new), Tail(subs))

\* the new source of cell 4, 7 or 8
RewriteCell(c, source) ==
    LET code == ApplyAll(JoinLines(source), Substitutions(c))
        kept == AllButLast(Split(code))
    IN [i \in 1..Len(kept) |-> WithNL(kept[i])]

\* the new source of cell 6: every piece but the last gets its newline back
Cell6Source ==
    LET pieces == Split(Cell6NewCode)
    IN [i \in 1..Len(pieces) |->
           IF i - 1 < Len(pieces) - 1 THEN Append(pieces[i], NL) ELSE pieces[i]]

\* the source of a cell as the notebook file holds it: the lines of the text,
\* each with its newline, the last one without when the text does not end
\* with one
SourceOf(text) ==
    LET pieces == Split(text)
        n == Len(pieces)
        lines == [i \in 1..n |-> IF i < n THEN Append(pieces[i], NL) ELSE pieces[i]]
    IN IF pieces[n] = << >> THEN AllButLast(lines) ELSE lines

\* what the text of a cell is made of
Pieces(c) ==
    CASE c = 4 -> {<<"x">>, <<NL>>, Cell4Old}
      [] c = 7 -> {<<"x">>, <<NL>>, ReallyOld}
      [] c = 8 -> {<<"x">>, <<NL>>, ReallyOld, CanYouOld, TopKOld}
      [] OTHER -> {<<"x">>}

RECURSIVE TextsOf(_, _)
TextsOf(c, n) ==
    IF n = 0 THEN {<< >>}
    ELSE LET shorter == TextsOf(c, n - 1)
         IN shorter \cup {t \o p : t \in shorter, p \in Pieces(c)}

CellTexts(c) == TextsOf(c, MaxPieces)

\* the script: load the notebook, rewrite the four cells, save it
FixNb ==
    /\ fixPc = "loaded"
    /\ nb' = [c \in Cells |-> IF c = 6 THEN Cell6Source ELSE RewriteCell(c, nb[c])]
    /\ fixPc' = "saved"
    /\ UNCHANGED <<nbBefore, search, rtVars>>
    /\ UNCHANGED <<invokeVars, hookVars>>

InitFix ==
    /\ InvokeIdle
    /\ version = "debug"
    /\ HookStateIdle
    /\ SearchIdle
    /\ RuntimeIdle
    /\ \E t4 \in CellTexts(4), t7 \in CellTexts(7), t8 \in CellTexts(8) :
          nb = [c \in Cells |->
                   CASE c = 4 -> SourceOf(t4)
                     [] c = 6 -> SourceOf(<<"x">>)
                     [] c = 7 -> SourceOf(t7)
                     [] c = 8 -> SourceOf(t8)]
    /\ nbBefore = nb
    /\ fixPc = "loaded"

NextFix == FixNb

SpecFix == InitFix /\ [][NextFix]_vars

(***************************************************************************)
(* Properties of safe_invoke, stated over the log of the running call.     *)
(***************************************************************************)
Invokes == SelectSeq(log, LAMBDA e : e.ev = "invoke")
SleepEvents == SelectSeq(log, LAMBDA e : e.ev = "sleep")
Sleeps == [i \in 1..Len(SleepEvents) |-> SleepEvents[i].n]

ThrottledFailure(e) == e.ev = "invoke" /\ ~e.ok /\ IsThrottling(e.msg)
OtherFailure(e) == e.ev = "invoke" /\ ~e.ok /\ ~IsThrottling(e.msg)

\* C1: a call with max_retries = 3 whose three attempts all failed with a
\* throttling-classified error ends by re-raising the error; it never returns
\* normally.
C1_ExhaustionReRaises ==
    ( /\ pc = "done"
      /\ max_retries = DefaultMaxRetries
      /\ Len(Invokes) = DefaultMaxRetries
      /\ \A i \in 1..Len(Invokes) : ThrottledFailure(Invokes[i]) )
    => outcome.kind = "raised"

\* C2: a failure that is not classified as throttling is the last thing the
\* call does: that same error is raised, no invocation, model change or sleep
\* follows it, and the agent's model is the one the failed attempt ran on.
C2_NonThrottlingPropagates ==
    \A i \in 1..Len(log) :
        OtherFailure(log[i]) =>
            /\ i = Len(log)
            /\ pc = "done"
            /\ outcome = Raised(log[i].msg)
            /\ agentModel = log[i].m

C2_Witness ==
    /\ Len(Invokes) = 2
    /\ OtherFailure(Invokes[2])
    /\ outcome.kind = "raised"

\* C3: at most max_retries invocations per call, an attempt is made only if
\* every earlier attempt failed with a throttling-classified error, and a
\* successful attempt ends the call with its result returned as it is: nothing
\* follows it in the log and the model is the one it ran on.
C3_BoundedAttempts ==
    /\ pc # "idle" => Len(Invokes) <= max_retries
    /\ \A k \in 1..Len(Invokes) :
          /\ Invokes[k].n = k - 1
          /\ \A j \in 1..(k - 1) : ThrottledFailure(Invokes[j])
    /\ \A i \in 1..Len(log) :
          (log[i].ev = "invoke" /\ log[i].ok) =>
              /\ i = Len(log)
              /\ pc = "done"
              /\ outcome = Returned(log[i].msg)
              /\ agentModel = log[i].m

C3_Witness ==
    /\ max_retries = DefaultMaxRetries
    /\ Len(Invokes) = DefaultMaxRetries
    /\ Invokes[DefaultMaxRetries].ok
    /\ outcome.kind = "returned"

\* C4: a model swap and a backoff sleep happen only after a throttled failure
\* that still has an attempt remaining, the swap after attempt a assigning
\* entry a of the fallback list; after the failure of the last allowed attempt
\* the model is not changed and no sleep is performed.
C4_SwapOnlyWithAttemptRemaining ==
    /\ \A i \in 1..Len(log) :
          log[i].ev = "setmodel" =>
              /\ i > 1
              /\ ThrottledFailure(log[i - 1])
              /\ log[i - 1].n = log[i].n
              /\ log[i].n + 1 < max_retries
              /\ log[i].m = Fallbacks[log[i].n + 1]
    /\ \A i \in 2..Len(log) :
          log[i].ev = "sleep" =>
              /\ log[i - 1].ev = "setmodel"
              /\ log[i - 1].n + 1 < max_retries
    /\ \A i \in 1..Len(log) :
          (log[i].ev = "invoke" /\ ~log[i].ok /\ log[i].n + 1 = max_retries)
              => i = Len(log) /\ agentModel = log[i].m

\* C5: the fixed 1-second delay happens once per call, before the first
\* attempt; every other sleep follows the failure of an attempt a and lasts
\* 2^a seconds, and every retry is preceded by that sleep; a call throttled
\* twice that then succeeds has slept 1, 1, 2 seconds in that order.
C5_Delays ==
    /\ pc # "idle" => (Len(log) >= 1 /\ log[1] = SleepEv(1))
    /\ \A i \in 2..Len(log) :
          log[i].ev = "sleep" =>
              /\ i > 2
              /\ log[i - 1].ev = "setmodel"
              /\ log[i - 2].ev = "invoke" /\ ~log[i - 2].ok
              /\ log[i].n = 2 ^ (log[i - 2].n)
    /\ \A i \in 1..Len(log) :
          log[i].ev = "invoke" =>
              /\ i > 1
              /\ log[i - 1].ev = "sleep"
              /\ log[i].n = 0 => i = 2
              /\ log[i].n > 0 => log[i - 1].n = 2 ^ (log[i].n - 1)
    /\ ( /\ outcome.kind = "returned"
         /\ Len(Invokes) = 3 )
       => Sleeps = <<1, 1, 2>>

C5_Witness ==
    /\ outcome.kind = "returned"
    /\ Len(Invokes) = 3
    /\ Invokes[1].n = 0
    /\ Sleeps = <<1, 1, 2>>

\* C18: in a call whose first attempt ran on the model create_food_agent
\* gives the agent, every attempt after the first ran on a model other than
\* the one of the attempt before it, and every model assignment gave the
\* agent a model other than the one the throttled attempt ran on.
C18_RetryOnOtherModel ==
    (Len(Invokes) >= 1 /\ Invokes[1].m = CreateFoodAgentModel) =>
        /\ \A k \in 2..Len(Invokes) : Invokes[k].m # Invokes[k - 1].m
        /\ \A i \in 2..Len(log) :
              log[i].ev = "setmodel" => log[i].m # log[i - 1].m

(***************************************************************************)
(* Properties of on_after_invocation.                                      *)
(***************************************************************************)
\* an assistant message with a non-empty text
AssistantText(i) ==
    /\ messages[i].role = "assistant"
    /\ HasText(messages[i])
    /\ messages[i].content[1].text # << >>

\* a user message with a non-empty text that is not a tool result
UserText(i) ==
    /\ messages[i].role = "user"
    /\ HasText(messages[i])
    /\ messages[i].content[1].text # << >>
    /\ ~messages[i].content[1].toolResult

Max(S) == CHOOSE x \in S : \A y \in S : y <= x

LastAssistantText == Max({j \in 1..Len(messages) : AssistantText(j)})
LastUserTextBefore(j) == Max({i \in 1..(j - 1) : UserText(i)})

IdsPresent ==
    /\ state.actor_id # None
    /\ state.session_id # None
    /\ version = "runtime" => state.memory_id # None

\* C6: for a transcript of at least two messages with the identifiers
\* present that holds an assistant message with a non-empty text and, before
\* it, a user message with a non-empty text that is not a tool result, the
\* hook submits one event: the most recent assistant text, and the most
\* recent such user text before that assistant message.  Stated for the
\* transcripts none of whose text blocks is empty.
C6_CapturesLastPair ==
    ( /\ hook.name = "capture"
      /\ Len(messages) >= 2
      /\ IdsPresent
      /\ \A i \in 1..Len(messages) :
            HasText(messages[i]) => messages[i].content[1].text # << >>
      /\ \E j \in 1..Len(messages) :
            AssistantText(j) /\ \E i \in 1..(j - 1) : UserText(i) )
    => /\ Len(events) = 1
       /\ events[1].messages[2][1] = messages[LastAssistantText].content[1].text
       /\ events[1].messages[1][1] =
              messages[LastUserTextBefore(LastAssistantText)].content[1].text

\* C7: one run of the hook makes at most one create_event call; an event has
\* exactly the two entries (user_text, "USER"), (assistant_text, "ASSISTANT"),
\* is keyed by the memory id and by the actor_id and session_id of the agent
\* state, neither text is empty, and the user text is the text of a user
\* message that is not a tool result and that precedes the assistant message
\* the assistant text is taken from.
C7_EventShape ==
    hook.name = "capture" =>
        /\ Len(events) <= 1
        /\ \A k \in 1..Len(events) :
              LET e == events[k] IN
              /\ Len(e.messages) = 2
              /\ e.messages[1][2] = "USER"
              /\ e.messages[2][2] = "ASSISTANT"
              /\ e.messages[1][1] # << >>
              /\ e.messages[2][1] # << >>
              /\ e.actor_id = state.actor_id /\ e.actor_id # None
              /\ e.session_id = state.session_id /\ e.session_id # None
              /\ e.memory_id = (IF version = "runtime" THEN state.memory_id
                                                      ELSE providerMemoryId)
              /\ \E j \in 1..Len(messages) :
                    /\ AssistantText(j)
                    /\ messages[j].content[1].text = e.messages[2][1]
                    /\ \E i \in 1..(j - 1) :
                          /\ UserText(i)
                          /\ messages[i].content[1].text = e.messages[1][1]

C7_Witness ==
    /\ hook.name = "capture"
    /\ Len(events) = 1
    /\ Len(messages) = 3
    /\ messages[2].role = "user"
    /\ messages[2].content = <<TextAndToolResultBlock(<<"a">>)>>
    /\ events[1].messages[1][1] = <<"b">>

\* C8: the hook makes no create_event call when the transcript has fewer than
\* two messages, or an identifier is missing from the agent state, or there
\* is no assistant message with a non-empty text, or no user message with a
\* non-empty text that is not a tool result; and no run of the hook changes
\* the transcript or the agent state.
C8_NoOpCases ==
    /\ [] ( ( /\ hook.name = "capture"
              /\ \/ Len(messages) < 2
                 \/ ~IdsPresent
                 \/ ~\E j \in 1..Len(messages) : AssistantText(j)
                 \/ ~\E i \in 1..Len(messages) : UserText(i) )
            => events = << >> )
    /\ [][messages' = messages /\ state' = state]_vars

C8_Witness ==
    /\ hook.name = "capture"
    /\ events = << >>
    /\ Len(messages) = 3
    /\ state.session_id = None
    /\ \E j \in 1..Len(messages) :
          AssistantText(j) /\ \E i \in 1..(j - 1) : UserText(i)

\* C9: when create_event raises, the hook still returns normally, the error
\* being logged and not raised, and the transcript and the agent state are
\* unchanged.
C9_CaptureNeverRaises ==
    /\ [] ( hook.name = "capture" =>
              /\ hook.result = "returned"
              /\ (clientFails /\ events # << >>) => errorLog = 1 )
    /\ [][messages' = messages /\ state' = state]_vars

C9_Witness ==
    /\ hook.name = "capture"
    /\ clientFails
    /\ Len(events) = 1
    /\ hook.result = "returned"

(***************************************************************************)
(* Properties of on_agent_initialized.                                     *)
(***************************************************************************)
\* a result that is a dict with a dict content and a text that is non-empty
\* after stripping whitespace
HasPrefText(pref) ==
    /\ pref.isDict
    /\ pref.content = "dict"
    /\ pref.textKind = "str"
    /\ Strip(pref.text) # << >>

RECURSIVE BulletedLines(_)
BulletedLines(items) ==
    IF items = << >> THEN << >>
    ELSE (IF HasPrefText(Head(items))
          THEN <<NL, "-", " ">> \o Strip(Head(items).text)
          ELSE << >>) \o BulletedLines(Tail(items))

\* the retrieval was made, returned, and no text of a result is a non-string
RetrievedAndFormatted ==
    /\ hook.name = "prefs"
    /\ Len(retrievals) = 1
    /\ ~clientFails
    /\ \A i \in 1..Len(preferences.items) : preferences.items[i].textKind # "other"

\* C10: after a successful retrieval the system prompt is the prompt before
\* followed by the version's header and, in retrieval order, one line
\* "- <text>" per result with a text, the lines separated by newline
\* characters; it is the prompt before when there is no such result.  In both
\* versions of the hook.
C10_PromptBlock ==
    RetrievedAndFormatted =>
        LET lines == BulletedLines(preferences.items) IN
        IF lines = << >>
        THEN system_prompt = promptBefore
        ELSE system_prompt = promptBefore \o Header(version) \o Tail(lines)

\* a result whose text is no string: .strip() raises on it
TextNotStr(pref) == pref.isDict /\ pref.content = "dict" /\ pref.textKind = "other"

\* retrieval raised, or it returned a list holding a result whose text is no
\* string
RetrievalOrFormattingFailed ==
    /\ hook.name = "prefs"
    /\ Len(retrievals) = 1
    /\ \/ clientFails
       \/ /\ ~preferences.none
          /\ \E i \in 1..Len(preferences.items) : TextNotStr(preferences.items[i])

\* C11: when retrieval or the formatting of a result raises, the hook returns
\* normally, logs the error, and the system prompt is what it was before the
\* hook ran: no partial block is appended.
C11_PrefsNeverRaises ==
    /\ hook.name = "prefs" => hook.result = "returned"
    /\ RetrievalOrFormattingFailed =>
          /\ system_prompt = promptBefore
          /\ errorLog = 1

C11_Witness ==
    /\ RetrievalOrFormattingFailed
    /\ ~clientFails
    /\ Len(preferences.items) = 2
    /\ HasPrefText(preferences.items[1])
    /\ TextNotStr(preferences.items[2])
    /\ hook.result = "returned"

\* C12: one initialization makes at most one retrieve_memories call, always
\* for the namespace user/<actor_id>/food_preferences of the actor_id of the
\* agent's own state, and none when actor_id is missing; the prompt is
\* changed only after such a call.
C12_OwnNamespace ==
    hook.name = "prefs" =>
        /\ Len(retrievals) <= 1
        /\ \A k \in 1..Len(retrievals) :
              /\ state.actor_id # None
              /\ retrievals[k].namespace =
                     <<"user/", state.actor_id, "/food_preferences">>
        /\ state.actor_id = None => retrievals = << >>
        /\ system_prompt # promptBefore => Len(retrievals) = 1

C12_Witness ==
    /\ hook.name = "prefs"
    /\ Len(retrievals) = 1
    /\ system_prompt # promptBefore
    /\ retrievals[1].namespace = <<"user/", "food-lover-001", "/food_preferences">>

(***************************************************************************)
(* Properties of search_food.                                              *)
(***************************************************************************)
SearchDone == search.result.kind # "none"

\* C13: search_food never raises: it returns "No results found." for an
\* empty result list, the rate-limit text when the search raises the
\* rate-limit exception, "Search error: <message>" when it raises another
\* exception, and the formatted list otherwise.
C13_SearchNeverRaises ==
    SearchDone =>
        /\ search.result.kind = "returned"
        /\ (search.api.kind = "none" \/ (search.api.kind = "list" /\ search.api.items = << >>))
              => search.result.val = <<"No results found.">>
        /\ search.api.kind = "ratelimit"
              => search.result.val = <<"Rate limit reached. Please try again later.">>
        /\ search.api.kind = "error"
              => search.result.val = <<"Search error: ">> \o search.api.msg
        /\ (search.api.kind = "list" /\ search.api.items # << >>)
              => /\ search.result.val # << >>
                 /\ SubSeq(search.result.val, 1, 3) = <<"1", ".", " ">>

C13_Witness ==
    /\ SearchDone
    /\ search.api.kind = "error"
    /\ search.api.msg = <<"timeout">>
    /\ search.result = [kind |-> "returned", val |-> <<"Search error: ", "timeout">>]

Min(a, b) == IF a < b THEN a ELSE b

\* C14: for a non-empty result list the output is the first max_results
\* results and no more, whatever the length of the returned list, numbered
\* from 1 in the order returned, each entry "<n>. <title>" followed by its
\* snippet, with "No title" and an empty snippet for missing fields.
C14_FirstMaxResults ==
    (SearchDone /\ search.api.kind = "list" /\ search.api.items # << >>) =>
        LET shown == SubSeq(search.api.items, 1,
                            Min(Len(search.api.items), search.max_results))
            entries == [i \in 1..Len(shown) |->
                          Decimal(i) \o <<".", " ">>
                            \o (IF shown[i].hasTitle THEN shown[i].title
                                                     ELSE <<"No title">>)
                            \o LineBreak(version) \o <<" ", " ", " ">>
                            \o (IF shown[i].hasBody THEN shown[i].body ELSE << >>)]
        IN search.result.val =
               Join(LineBreak(version) \o LineBreak(version), entries)

(***************************************************************************)
(* Properties of the runtime entrypoint, stated over the requests received *)
(* and the global agent.                                                   *)
(***************************************************************************)
Reqs == 1..Len(requests)

PromptAbsent(r) == ~r.prompt.present \/ r.prompt.text = << >>

Served(r) == r.served # NoServed

\* the global agent, its transcript and prompt, and the calls made to the
\* memory store
agentAndStore == <<agentExists, agentGen, state, messages, system_prompt,
                   events, retrievals>>

\* a request has just been received and it has no prompt
ReceivedWithoutPrompt ==
    /\ Len(requests') = Len(requests) + 1
    /\ PromptAbsent(requests'[Len(requests')])

\* C15: a request whose payload has no prompt (the key is missing or its
\* value is empty) ends at once with the "Missing 'prompt' field" error
\* string as its returned result, it never creates, replaces or invokes
\* the global agent, and the agent, its transcript and the memory store
\* are the same after it as before; a request without an actor_id is
\* handled under "default_user", any other under the actor_id it carries.
C15_MissingPrompt ==
    /\ [](\A i \in Reqs :
            LET r == requests[i] IN
            /\ PromptAbsent(r) =>
                  /\ r.pc = "done"
                  /\ r.result = [kind |-> "returned", val |-> MissingPromptError]
                  /\ ~r.created
                  /\ ~Served(r)
            /\ r.payloadActor = Missing => r.actor_id = "default_user"
            /\ r.payloadActor # Missing => r.actor_id = r.payloadActor)
    /\ [][ReceivedWithoutPrompt => UNCHANGED agentAndStore]_vars

\* a request with an empty prompt and no actor_id was turned away while an
\* agent with a transcript existed
C15_Witness ==
    /\ agentExists
    /\ messages # << >>
    /\ events # << >>
    /\ \E i \in Reqs :
          /\ requests[i].prompt = [present |-> TRUE, text |-> << >>]
          /\ requests[i].payloadActor = Missing
          /\ requests[i].actor_id = "default_user"
          /\ requests[i].result.val = MissingPromptError

\* request i is the one whose agent check has just run
AgentChecked(i) ==
    /\ i \in Reqs
    /\ requests[i].pc = "validated"
    /\ requests'[i].pc = "ready"

DiffersFromAgent(r) ==
    \/ ~agentExists
    \/ state.actor_id # r.actor_id
    \/ state.session_id # r.session_id

C17_OwnAgentUnderOverlap ==
    \A i \in Reqs :
        Served(requests[i]) =>
           /\ requests[i].served.actor_id = requests[i].actor_id
           /\ requests[i].served.session_id = requests[i].session_id

(***************************************************************************)
(* Properties of fix_nb.py.                                                *)
(***************************************************************************)
\* the text occurs in the cell's text
Occurs(old, text) ==
    \E i \in 1..(Len(text) - Len(old) + 1) :
        SubSeq(text, i, i + Len(old) - 1) = old

Rewritten == {4, 7, 8}

\* C19: after the script, a rewritten cell none of whose substitution
\* patterns occurs in it has the text it had before, and every rewritten
\* cell has as many source lines as before, the last one included when the
\* source does not end with a newline.
C19_NoLineLost ==
    fixPc = "saved" =>
        \A c \in Rewritten :
            /\ (\A k \in 1..Len(Substitutions(c)) :
                    ~Occurs(Substitutions(c)[k].old, JoinLines(nbBefore[c])))
                  => JoinLines(nb[c]) = JoinLines(nbBefore[c])
            /\ Len(nb[c]) = Len(nbBefore[c])
====
